---- MODULE Spec2Model ----
(***************************************************************************)
(* Model of the Todo_App web client: the ChatInterface component, the Home *)
(* page, the API client lib/api.ts, and the task service and chat endpoint *)
(* they talk to.                                                           *)
(*                                                                         *)
(* Text is a sequence of one-character strings, so that String.trim is     *)
(* computed and not assumed.  Fixed texts of the program (error messages,  *)
(* replies of the assistant) are one-element sequences holding the text.   *)
(*                                                                         *)
(* React dispatches one event at a time and re-renders after the state     *)
(* updates of a discrete event before it dispatches the next one, so a     *)
(* handler reads the current state; the part of an async handler after an  *)
(* await is a separate action.                                             *)
(***************************************************************************)
EXTENDS Integers, Sequences, FiniteSets, TLC

\* ---------------------------------------------------------------- bounds
MaxLen == 2          \* longest text typed into an input
MaxSubmits == 2      \* non-blank submits of the chat form
MaxTasks == 2        \* task ids the task service hands out
MaxTitleLen == 1     \* longest title typed into the add-task form
MaxCalls == 2        \* task requests of the page in flight at once
MaxTurnSeq == 2      \* turns of a conversation session
MaxWords == 2        \* longest utterance, in words
MaxClock == 2        \* milliseconds the clock of the browser advances

\* ------------------------------------------------------------- constants
Null == <<>>                    \* JavaScript null: no error text
JsonNull == [json |-> "null", response |-> <<>>]   \* a body that parses to null
Undefined == "undefined"        \* JavaScript undefined (absent optional prop)
MockUserId == "mock-user-uuid"
RetryBound == 2                 \* the attempt bound the specification names

Chars == {" ", "a"}
Texts == UNION {[1..n -> Chars] : n \in 0..MaxLen}
Titles == UNION {[1..n -> Chars] : n \in 0..MaxTitleLen}

\* The ids a host can attach to a chat session: none, the empty string, the
\* id the Home page attaches, another user's id.
AttachedUserIds == {Undefined, "", MockUserId, "user-2"}

ChatErrorText == <<"Sorry, there was an error processing your request. Please try again.">>
LoadErrorText == <<"Failed to load tasks. Please try again later.">>
TitleRequiredText == <<"Title is required">>
CreateErrorText == <<"Failed to create task. Please try again.">>
ToggleErrorText == <<"Failed to update task status. Please try again.">>
DeleteErrorText == <<"Failed to delete task. Please try again.">>

VARIABLES
    \* ChatInterface
    userId,         \* the userId prop
    inputMessage,   \* useState('')
    messages,       \* useState([]); each message also records its turn
    isLoading,      \* useState(false)
    chatCalls,      \* the sendMessage calls of this session, in order
    arrived,        \* history: non-blank utterances handed to handleSubmit
    clock,          \* Date.now(): the clock of the browser, in milliseconds
    \* Home
    tasks,          \* useState([]): the task list kept by the page
    newTask,        \* useState({ title: '', description: '' })
    loading,        \* useState(true)
    error,          \* useState(null)
    apiCalls,       \* task requests of the page that have not returned
    \* task service
    serverTasks,    \* the stored tasks of the user
    nextId,         \* the next task id
    \* conversation session of the chat endpoint
    machine,        \* state of the conversation state machine
    turn,           \* sequence number of the current utterance
    utterance,      \* the utterance of the current turn
    intent,         \* the Intent chosen for it
    phase,          \* how the slots of the current turn were built
    snapshot,       \* SessionContext: last fetched TaskSnapshot and its turn
    slots,          \* SessionContext: the SlotSet being built or dispatched
    response,       \* the kind of the last response emitted
    resolution,     \* the last ResolutionResult and the turn that computed it
    toolCall,       \* the last ToolCall issued and its turn
    toolResult,     \* the last ToolResult
    listed,         \* history: the last list_tasks result, and whether the
                    \* store is unchanged since
    ev              \* history: which branch a submit handler took, if the last
                    \* step was one

chatVars == <<userId, inputMessage, messages, isLoading, chatCalls, arrived, clock>>
homeVars == <<tasks, newTask, loading, error, apiCalls>>
serverVars == <<serverTasks, nextId>>
turnVars == <<machine, turn, utterance, intent, phase, snapshot, slots, response,
              resolution, toolCall, toolResult, listed>>
vars == <<chatVars, homeVars, serverVars, turnVars, ev>>

\* ------------------------------------------------------------------ text
IsSpace(c) == c = " "

RECURSIVE TrimStart(_)
TrimStart(s) ==
    IF s = <<>> THEN s
    ELSE IF IsSpace(Head(s)) THEN TrimStart(Tail(s)) ELSE s

RECURSIVE TrimEnd(_)
TrimEnd(s) ==
    IF s = <<>> THEN s
    ELSE IF IsSpace(s[Len(s)]) THEN TrimEnd(SubSeq(s, 1, Len(s) - 1)) ELSE s

Trim(s) == TrimEnd(TrimStart(s))

RemoveAt(s, i) == SubSeq(s, 1, i - 1) \o SubSeq(s, i + 1, Len(s))

\* ---------------------------------------------------------- task service
NewTask(id, title) ==
    [id |-> id, title |-> title, description |-> <<>>, status |-> "incomplete"]

InitialStores == {<<NewTask(1, <<"a">>)>>}

\* the stores a conversation session can start from: also one with two tasks
\* of the same title
SessionStores == InitialStores \cup {<<NewTask(1, <<"a">>), NewTask(2, <<"a">>)>>}

\* ------------------------------------------------------------ lib/api.ts
\* body.userId of the chat request
ForwardedUserId(u) == IF u \in {Undefined, ""} THEN MockUserId ELSE u

\* the authorization headers of a request
getAuthHeaders == {}

\* the headers every function of the client sends
Headers ==
    {[name |-> "Content-Type", value |-> "application/json"]} \cup getAuthHeaders

\* sendMessage up to its await: one fetch of POST /api/chat
sendMessage(message, u) ==
    [message |-> message, userId |-> ForwardedUserId(u), headers |-> Headers,
     fetches |-> 1,
     status |-> "pending", outcome |-> "none", data |-> JsonNull, tool |-> "none"]

\* a task request up to its await: one fetch; the response is filled in
\* when the request settles
Request(op, id, taskData) ==
    [op |-> op, id |-> id, data |-> taskData, headers |-> Headers,
     status |-> "pending", outcome |-> "none", ok |-> FALSE, body |-> <<>>]

NoData == [title |-> <<>>, description |-> <<>>]
getTasks == Request("getTasks", 0, NoData)                   \* GET /api/tasks
createTask(taskData) == Request("createTask", 0, taskData)   \* POST /api/tasks
toggleTaskStatus(id) == Request("toggleTaskStatus", id, NoData)  \* PATCH .../id/complete
deleteTask(id) == Request("deleteTask", id, NoData)          \* DELETE /api/tasks/id
updateTask(id, taskData) == Request("updateTask", id, taskData)  \* PUT /api/tasks/id

\* how a fetch can end: a response with an ok status, a response with
\* another status, or no response at all
FetchFailures == {"http4xx", "network"}
FetchOutcomes == {"ok"} \cup FetchFailures

\* a function of the client without its response.ok test: it returns the
\* parsed body of every response
Returns_AnyResponse(outcome) == outcome # "network"

\* a function of the client returns to its caller for an ok response; for
\* every other outcome of its fetch it logs and throws
Returns(outcome) == outcome = "ok"

Pending(i, op) ==
    i \in 1..Len(apiCalls) /\ apiCalls[i].op = op /\ apiCalls[i].status = "pending"
Returned(i, op) ==
    i \in 1..Len(apiCalls) /\ apiCalls[i].op = op /\ apiCalls[i].status = "settled"
Settle(i, outcome, body) ==
    [apiCalls EXCEPT ![i] =
        [@ EXCEPT !.status = "settled", !.outcome = outcome,
                  !.ok = Returns(outcome),
                  !.body = IF Returns(outcome) THEN body ELSE <<>>]]

\* ------------------------------------------------- interpreter: data
\* ReferenceExpression and SlotSet
NoRef == [tag |-> "None", id |-> 0, mention |-> <<>>]
ExplicitId(n) == [tag |-> "ExplicitId", id |-> n, mention |-> <<>>]
TitleMention(m) == [tag |-> "TitleMention", id |-> 0, mention |-> m]
SlotSet(chosen, title, statusFilter, ref) ==
    [intent |-> chosen, title |-> title, statusFilter |-> statusFilter,
     referenceExpression |-> ref]
NoSlots == SlotSet("Unclear", <<>>, "none", NoRef)

\* ResolutionResult
Resolved(id) == [kind |-> "Resolved", id |-> id, candidateIds |-> {}]
NotFound == [kind |-> "NotFound", id |-> 0, candidateIds |-> {}]
Ambiguous(ids) == [kind |-> "Ambiguous", id |-> 0, candidateIds |-> ids]

\* ToolCall: the request envelope of one of the three tools
ToolCall(tool, title, status, id, n) ==
    [tool |-> tool, title |-> title, status |-> status, task_id |-> id, turn |-> n]
NoToolCall == ToolCall("none", <<>>, "none", 0, 0)

\* ToolResult
ToolResult(tool, success, taskList) ==
    [tool |-> tool, success |-> success, tasks |-> taskList, count |-> Len(taskList)]
NoToolResult == ToolResult("none", FALSE, <<>>)

\* ----------------------------------------------------------------- Init
Start(stores) ==
    /\ userId \in AttachedUserIds
    /\ inputMessage = <<>>
    /\ messages = <<>>
    /\ isLoading = FALSE
    /\ chatCalls = <<>>
    /\ arrived = 0
    /\ clock = 0
    /\ tasks = <<>>
    /\ newTask = [title |-> <<>>, description |-> <<>>]
    /\ loading = TRUE
    /\ error = Null
    /\ apiCalls = <<getTasks>>
    /\ serverTasks \in stores
    /\ nextId = Len(serverTasks) + 1
    /\ machine = "Idle"
    /\ turn = 0
    /\ snapshot = [tasks |-> <<>>, turn |-> 0]
    /\ slots = NoSlots
    /\ response = "none"
    /\ utterance = <<>>
    /\ intent = "Unclear"
    /\ phase = "none"
    /\ resolution = [result |-> NotFound, turn |-> 0]
    /\ toolCall = NoToolCall
    /\ toolResult = NoToolResult
    /\ listed = [status |-> "none", tasks |-> <<>>, count |-> 0,
                 unchanged |-> FALSE, again |-> FALSE]
    /\ ev = "mount"

Init == Start(InitialStores)

\* ------------------------------------------------------------------ Home
\* GET /api/tasks answers, or the fetch fails
getTasksSettles(i) ==
    /\ i \in 1..Len(apiCalls)
    /\ apiCalls[i].op = "getTasks"
    /\ apiCalls[i].status = "pending"
    /\ \/ apiCalls' = Settle(i, "ok", serverTasks)
       \/ \E f \in FetchFailures : apiCalls' = Settle(i, f, <<>>)
    /\ ev' = "other"
    /\ UNCHANGED <<chatVars, turnVars, tasks, newTask, loading, error, serverVars>>

\* fetchTasks of the mount effect, after its await, with setLoading(false)
\* at the end of the try block instead of in a finally block
fetchTasks_NoFinally(i) ==
    /\ i \in 1..Len(apiCalls)
    /\ apiCalls[i].op = "getTasks"
    /\ apiCalls[i].status = "settled"
    /\ IF apiCalls[i].ok
       THEN tasks' = apiCalls[i].body /\ error' = error /\ loading' = FALSE
       ELSE tasks' = tasks /\ error' = LoadErrorText /\ loading' = loading
    /\ apiCalls' = RemoveAt(apiCalls, i)
    /\ ev' = "other"
    /\ UNCHANGED <<chatVars, turnVars, newTask, serverVars>>

\* fetchTasks of the mount effect, after its await
fetchTasks(i) ==
    /\ i \in 1..Len(apiCalls)
    /\ apiCalls[i].op = "getTasks"
    /\ apiCalls[i].status = "settled"
    /\ IF apiCalls[i].ok
       THEN tasks' = apiCalls[i].body /\ error' = error
       ELSE tasks' = tasks /\ error' = LoadErrorText
    /\ loading' = FALSE
    /\ apiCalls' = RemoveAt(apiCalls, i)
    /\ ev' = "other"
    /\ UNCHANGED <<chatVars, turnVars, newTask, serverVars>>

\* The page renders its spinner instead of the form, the list and the chat
\* while it is loading.
PageShown == ~loading

Descriptions == {<<>>, <<"a">>}
TaskIds(list) == {list[k].id : k \in 1..Len(list)}

\* handleInputChange of the add-task form
handleInputChange(name, value) ==
    /\ PageShown
    /\ newTask' = [newTask EXCEPT ![name] = value]
    /\ ev' = "other"
    /\ UNCHANGED <<chatVars, turnVars, tasks, loading, error, apiCalls, serverVars>>

\* Home.handleSubmit without its title check
Home_handleSubmit_NoTitleCheck ==
    /\ PageShown
    /\ Len(apiCalls) < MaxCalls
    /\ apiCalls' = Append(apiCalls, createTask(newTask))
    /\ ev' = "homeSubmit"
    /\ UNCHANGED <<chatVars, turnVars, tasks, newTask, loading, error, serverVars>>

\* Home.handleSubmit up to its await
Home_handleSubmit ==
    /\ PageShown
    /\ IF Trim(newTask.title) = <<>>
       THEN /\ error' = TitleRequiredText
            /\ ev' = "homeSubmitBlank"
            /\ UNCHANGED apiCalls
       ELSE /\ Len(apiCalls) < MaxCalls
            /\ apiCalls' = Append(apiCalls, createTask(newTask))
            /\ ev' = "homeSubmit"
            /\ UNCHANGED error
    /\ UNCHANGED <<chatVars, turnVars, tasks, newTask, loading, serverVars>>

\* POST /api/tasks answers 201 with the created task, or the request fails
createTaskSettles(i) ==
    /\ Pending(i, "createTask")
    /\ \/ /\ nextId <= MaxTasks
          /\ LET created == [id |-> nextId, title |-> apiCalls[i].data.title,
                             description |-> apiCalls[i].data.description,
                             status |-> "incomplete"]
             IN  /\ serverTasks' = Append(serverTasks, created)
                 /\ apiCalls' = Settle(i, "ok", <<created>>)
          /\ nextId' = nextId + 1
       \/ /\ \E f \in FetchFailures : apiCalls' = Settle(i, f, <<>>)
          /\ UNCHANGED serverVars
    /\ ev' = "other"
    /\ UNCHANGED <<chatVars, turnVars, tasks, newTask, loading, error>>

\* Home.handleSubmit after its await, adding the created task at the end of
\* the list
Home_handleSubmitResumes_Appends(i) ==
    /\ Returned(i, "createTask")
    /\ IF apiCalls[i].ok
       THEN /\ tasks' = Append(tasks, apiCalls[i].body[1])
            /\ newTask' = [title |-> <<>>, description |-> <<>>]
            /\ error' = Null
       ELSE /\ error' = CreateErrorText
            /\ UNCHANGED <<tasks, newTask>>
    /\ apiCalls' = RemoveAt(apiCalls, i)
    /\ ev' = "other"
    /\ UNCHANGED <<chatVars, turnVars, loading, serverVars>>

\* Home.handleSubmit after its await
Home_handleSubmitResumes(i) ==
    /\ Returned(i, "createTask")
    /\ IF apiCalls[i].ok
       THEN /\ tasks' = <<apiCalls[i].body[1]>> \o tasks
            /\ newTask' = [title |-> <<>>, description |-> <<>>]
            /\ error' = Null
       ELSE /\ error' = CreateErrorText
            /\ UNCHANGED <<tasks, newTask>>
    /\ apiCalls' = RemoveAt(apiCalls, i)
    /\ ev' = "other"
    /\ UNCHANGED <<chatVars, turnVars, loading, serverVars>>

\* handleToggleStatus up to its await; every listed task has its button
handleToggleStatus(id) ==
    /\ PageShown
    /\ id \in TaskIds(tasks)
    /\ Len(apiCalls) < MaxCalls
    /\ apiCalls' = Append(apiCalls, toggleTaskStatus(id))
    /\ ev' = "other"
    /\ UNCHANGED <<chatVars, turnVars, tasks, newTask, loading, error, serverVars>>

Toggled(task) ==
    [task EXCEPT !.status = IF @ = "complete" THEN "incomplete" ELSE "complete"]

\* PATCH /api/tasks/id/complete toggles the stored task and answers with it,
\* answers 404 when there is no such task, or the request fails
toggleTaskStatusSettles(i) ==
    /\ Pending(i, "toggleTaskStatus")
    /\ \/ /\ apiCalls[i].id \in TaskIds(serverTasks)
          /\ LET k == CHOOSE k \in 1..Len(serverTasks) :
                          serverTasks[k].id = apiCalls[i].id
             IN  /\ serverTasks' = [serverTasks EXCEPT ![k] = Toggled(@)]
                 /\ apiCalls' = Settle(i, "ok", <<Toggled(serverTasks[k])>>)
          /\ UNCHANGED nextId
       \/ /\ \E f \in FetchFailures : apiCalls' = Settle(i, f, <<>>)
          /\ UNCHANGED serverVars
    /\ ev' = "other"
    /\ UNCHANGED <<chatVars, turnVars, tasks, newTask, loading, error>>

\* handleToggleStatus after its await, mapping every entry of the list to
\* the returned task
handleToggleStatusResumes_MapsAll(i) ==
    /\ Returned(i, "toggleTaskStatus")
    /\ IF apiCalls[i].ok
       THEN /\ tasks' = [k \in 1..Len(tasks) |-> apiCalls[i].body[1]]
            /\ UNCHANGED error
       ELSE /\ error' = ToggleErrorText
            /\ UNCHANGED tasks
    /\ apiCalls' = RemoveAt(apiCalls, i)
    /\ ev' = "other"
    /\ UNCHANGED <<chatVars, turnVars, newTask, loading, serverVars>>

\* handleToggleStatus after its await, adding the returned task when the
\* list has no entry for it
handleToggleStatusResumes_Upserts(i) ==
    /\ Returned(i, "toggleTaskStatus")
    /\ IF apiCalls[i].ok
       THEN /\ tasks' = IF apiCalls[i].id \in TaskIds(tasks)
                        THEN [k \in 1..Len(tasks) |->
                                IF tasks[k].id = apiCalls[i].id
                                THEN apiCalls[i].body[1] ELSE tasks[k]]
                        ELSE Append(tasks, apiCalls[i].body[1])
            /\ UNCHANGED error
       ELSE /\ error' = ToggleErrorText
            /\ UNCHANGED tasks
    /\ apiCalls' = RemoveAt(apiCalls, i)
    /\ ev' = "other"
    /\ UNCHANGED <<chatVars, turnVars, newTask, loading, serverVars>>

\* handleToggleStatus after its await
handleToggleStatusResumes(i) ==
    /\ Returned(i, "toggleTaskStatus")
    /\ IF apiCalls[i].ok
       THEN /\ tasks' = [k \in 1..Len(tasks) |->
                            IF tasks[k].id = apiCalls[i].id
                            THEN apiCalls[i].body[1] ELSE tasks[k]]
            /\ UNCHANGED error
       ELSE /\ error' = ToggleErrorText
            /\ UNCHANGED tasks
    /\ apiCalls' = RemoveAt(apiCalls, i)
    /\ ev' = "other"
    /\ UNCHANGED <<chatVars, turnVars, newTask, loading, serverVars>>

\* handleDelete up to its await
handleDelete(id) ==
    /\ PageShown
    /\ id \in TaskIds(tasks)
    /\ Len(apiCalls) < MaxCalls
    /\ apiCalls' = Append(apiCalls, deleteTask(id))
    /\ ev' = "other"
    /\ UNCHANGED <<chatVars, turnVars, tasks, newTask, loading, error, serverVars>>

RECURSIVE Without(_, _)
Without(list, id) ==
    IF list = <<>> THEN <<>>
    ELSE IF Head(list).id = id THEN Without(Tail(list), id)
         ELSE <<Head(list)>> \o Without(Tail(list), id)

\* DELETE /api/tasks/id removes the stored task and answers 204, answers 404
\* when there is no such task, or the request fails
deleteTaskSettles(i) ==
    /\ Pending(i, "deleteTask")
    /\ \/ /\ apiCalls[i].id \in TaskIds(serverTasks)
          /\ serverTasks' = Without(serverTasks, apiCalls[i].id)
          /\ apiCalls' = Settle(i, "ok", <<>>)
          /\ UNCHANGED nextId
       \/ /\ \E f \in FetchFailures : apiCalls' = Settle(i, f, <<>>)
          /\ UNCHANGED serverVars
    /\ ev' = "other"
    /\ UNCHANGED <<chatVars, turnVars, tasks, newTask, loading, error>>

\* handleDelete after its await, taking the task out of the list whatever
\* the request did
handleDeleteResumes_RemovesAnyway(i) ==
    /\ Returned(i, "deleteTask")
    /\ tasks' = Without(tasks, apiCalls[i].id)
    /\ IF apiCalls[i].ok THEN UNCHANGED error ELSE error' = DeleteErrorText
    /\ apiCalls' = RemoveAt(apiCalls, i)
    /\ ev' = "other"
    /\ UNCHANGED <<chatVars, turnVars, newTask, loading, serverVars>>

\* handleDelete after its await, clearing the error when the delete worked
handleDeleteResumes_ClearsError(i) ==
    /\ Returned(i, "deleteTask")
    /\ IF apiCalls[i].ok
       THEN /\ tasks' = Without(tasks, apiCalls[i].id)
            /\ error' = Null
       ELSE /\ error' = DeleteErrorText
            /\ UNCHANGED tasks
    /\ apiCalls' = RemoveAt(apiCalls, i)
    /\ ev' = "other"
    /\ UNCHANGED <<chatVars, turnVars, newTask, loading, serverVars>>

\* handleDelete after its await
handleDeleteResumes(i) ==
    /\ Returned(i, "deleteTask")
    /\ IF apiCalls[i].ok
       THEN /\ tasks' = Without(tasks, apiCalls[i].id)
            /\ UNCHANGED error
       ELSE /\ error' = DeleteErrorText
            /\ UNCHANGED tasks
    /\ apiCalls' = RemoveAt(apiCalls, i)
    /\ ev' = "other"
    /\ UNCHANGED <<chatVars, turnVars, newTask, loading, serverVars>>

\* The chat is part of the page that is shown once loading has ended.
ChatMounted == PageShown

\* --------------------------------------------------------- ChatInterface
inputDisabled == isLoading
submitDisabled == Trim(inputMessage) = <<>> \/ isLoading

\* onChange of the text input
onChange(t) ==
    /\ ChatMounted
    /\ inputMessage' = t
    /\ ev' = "other"
    /\ UNCHANGED <<userId, messages, isLoading, chatCalls, arrived, clock,
                   homeVars, turnVars, serverVars>>

\* handleSubmit without the isLoading test of its early return
handleSubmitReturns_NoLoadingTest == Trim(inputMessage) = <<>>

\* the early return of handleSubmit, testing the input without trimming it
handleSubmitReturns_NoTrim == inputMessage = <<>> \/ isLoading

\* the early return of handleSubmit
handleSubmitReturns == Trim(inputMessage) = <<>> \/ isLoading

\* handleSubmit up to its await
handleSubmit ==
    /\ ChatMounted
    /\ IF Trim(inputMessage) = <<>> THEN arrived' = arrived
       ELSE arrived < MaxSubmits /\ arrived' = arrived + 1
    /\ IF handleSubmitReturns
       THEN /\ ev' = IF isLoading THEN "submitWhileLoading" ELSE "submitBlank"
            /\ UNCHANGED <<inputMessage, messages, isLoading, chatCalls>>
       ELSE /\ messages' = Append(messages,
                   [id |-> clock, role |-> "user", content |-> inputMessage,
                    turn |-> Len(chatCalls) + 1])
            /\ inputMessage' = <<>>
            /\ isLoading' = TRUE
            /\ chatCalls' = Append(chatCalls, sendMessage(inputMessage, userId))
            /\ ev' = "submit"
    /\ UNCHANGED <<userId, clock, homeVars, turnVars, serverVars>>

\* what the chat endpoint does with a message: the tool it runs
ChatTools == {"add_task", "list_tasks", "complete_task", "none"}

ToolReply(tool) ==
    CASE tool = "add_task" -> <<"Task created successfully">>
      [] tool = "list_tasks" -> <<"Retrieved tasks">>
      [] tool = "complete_task" -> <<"Task marked as complete">>
      [] OTHER -> <<"Could you clarify?">>

\* The reply is natural language worded by the assistant: the text that
\* names what the tool did, or a wording that does not.
ReplyTexts(tool) == {ToolReply(tool), <<"OK. Anything else?">>}

ToolEnabled(tool) ==
    CASE tool = "add_task" -> nextId <= MaxTasks
      [] tool = "complete_task" -> serverTasks # <<>>
      [] OTHER -> TRUE

ToolStore(tool, message, id) ==
    CASE tool = "add_task" -> Append(serverTasks, NewTask(nextId, Trim(message)))
      [] tool = "complete_task" ->
            [k \in 1..Len(serverTasks) |->
                IF serverTasks[k].id = id
                THEN [serverTasks[k] EXCEPT !.status = "complete"]
                ELSE serverTasks[k]]
      [] OTHER -> serverTasks

\* POST /api/chat answers with 200 and a body: the endpoint ran a tool and
\* replies with its text, or the body parses to null
chatEndpointOk(i) ==
    /\ i \in 1..Len(chatCalls)
    /\ chatCalls[i].status = "pending"
    /\ \E tool \in ChatTools, id \in 1..MaxTasks, nullBody \in BOOLEAN,
          reply \in UNION {ReplyTexts(t) : t \in ChatTools} :
        /\ reply \in ReplyTexts(tool)
        /\ nullBody => reply = ToolReply(tool)
        /\ ToolEnabled(tool)
        /\ tool = "complete_task" => \E k \in 1..Len(serverTasks) : serverTasks[k].id = id
        /\ tool # "complete_task" => id = 1
        /\ nullBody => tool = "none"
        /\ serverTasks' = ToolStore(tool, chatCalls[i].message, id)
        /\ nextId' = IF tool = "add_task" THEN nextId + 1 ELSE nextId
        /\ chatCalls' = [chatCalls EXCEPT ![i] =
              [@ EXCEPT !.status = "resolved", !.outcome = "ok", !.tool = tool,
                        !.data = IF nullBody THEN JsonNull
                                 ELSE [json |-> "object",
                                       response |-> reply]]]
    /\ ev' = "other"
    /\ UNCHANGED <<userId, inputMessage, messages, isLoading, arrived, clock,
                   homeVars, turnVars>>

\* POST /api/chat answers with an error status, or the fetch itself fails;
\* sendMessage logs and rethrows
ChatFailures == {"http4xx", "network"}

chatFetchFails(i) ==
    /\ i \in 1..Len(chatCalls)
    /\ chatCalls[i].status = "pending"
    /\ \E f \in ChatFailures :
        chatCalls' = [chatCalls EXCEPT ![i] =
              [@ EXCEPT !.status = IF Returns(f) THEN "resolved" ELSE "rejected",
                        !.outcome = f]]
    /\ ev' = "other"
    /\ UNCHANGED <<userId, inputMessage, messages, isLoading, arrived, clock,
                   homeVars, turnVars, serverVars>>

\* handleSubmit after its await, with a catch block that only logs
handleSubmitResumes_SilentCatch(i) ==
    /\ i \in 1..Len(chatCalls)
    /\ chatCalls[i].status \in {"resolved", "rejected"}
    /\ LET c == chatCalls[i]
           threw == c.status = "rejected" \/ c.data = JsonNull
       IN  messages' = IF threw THEN messages
                       ELSE Append(messages,
                               [id |-> clock, role |-> "assistant",
                                content |-> c.data.response, turn |-> i])
    /\ isLoading' = FALSE
    /\ chatCalls' = [chatCalls EXCEPT ![i].status = "done"]
    /\ ev' = "other"
    /\ UNCHANGED <<userId, inputMessage, arrived, clock, homeVars, turnVars, serverVars>>

\* handleSubmit after its await, with setIsLoading(false) at the end of the
\* try block instead of in a finally block
handleSubmitResumes_NoFinally(i) ==
    /\ i \in 1..Len(chatCalls)
    /\ chatCalls[i].status \in {"resolved", "rejected"}
    /\ LET c == chatCalls[i]
           threw == c.status = "rejected" \/ c.data = JsonNull
       IN  /\ messages' = Append(messages,
                   [id |-> clock, role |-> "assistant",
                    content |-> IF threw THEN ChatErrorText ELSE c.data.response,
                    turn |-> i])
           /\ isLoading' = IF threw THEN isLoading ELSE FALSE
    /\ chatCalls' = [chatCalls EXCEPT ![i].status = "done"]
    /\ ev' = "other"
    /\ UNCHANGED <<userId, inputMessage, arrived, clock, homeVars, turnVars, serverVars>>

\* handleSubmit after its await: try, catch, finally
handleSubmitResumes(i) ==
    /\ i \in 1..Len(chatCalls)
    /\ chatCalls[i].status \in {"resolved", "rejected"}
    /\ LET c == chatCalls[i]
           threw == c.status = "rejected" \/ c.data = JsonNull
       IN  messages' = Append(messages,
               [id |-> clock, role |-> "assistant",
                content |-> IF threw THEN ChatErrorText ELSE c.data.response,
                turn |-> i])
    /\ isLoading' = FALSE
    /\ chatCalls' = [chatCalls EXCEPT ![i].status = "done"]
    /\ ev' = "other"
    /\ UNCHANGED <<userId, inputMessage, arrived, clock, homeVars, turnVars, serverVars>>

\* a millisecond passes; Date.now() never runs backwards here
Tick ==
    /\ clock < MaxClock
    /\ clock' = clock + 1
    /\ ev' = "other"
    /\ UNCHANGED <<userId, inputMessage, messages, isLoading, chatCalls, arrived,
                   homeVars, turnVars, serverVars>>

\* ------------------------------------------- lib/api.ts under any caller
\* The functions of the client called by any caller, with every outcome of
\* their fetch and every body a response can carry.
CallerIds == {1}
CallerData == {[title |-> <<"a">>, description |-> <<>>]}
CallerMessages == {<<"a">>}
ClientRequests ==
    {getTasks}
        \cup {createTask(d) : d \in CallerData}
        \cup {updateTask(id, d) : id \in CallerIds, d \in CallerData}
        \cup {deleteTask(id) : id \in CallerIds}
        \cup {toggleTaskStatus(id) : id \in CallerIds}
Bodies == {<<>>, <<NewTask(1, <<"a">>)>>}

\* a caller calls a task function of the client
ClientCalled(req) ==
    /\ Len(apiCalls) + Len(chatCalls) < MaxCalls
    /\ apiCalls' = Append(apiCalls, req)
    /\ ev' = "other"
    /\ UNCHANGED <<chatVars, turnVars, tasks, newTask, loading, error, serverVars>>

\* a caller calls sendMessage
sendMessageCalled(message) ==
    /\ Len(apiCalls) + Len(chatCalls) < MaxCalls
    /\ chatCalls' = Append(chatCalls, sendMessage(message, userId))
    /\ ev' = "other"
    /\ UNCHANGED <<userId, inputMessage, messages, isLoading, arrived, clock,
                   homeVars, turnVars, serverVars>>

\* the fetch of a task function ends
FetchEnds(i, outcome, body) ==
    /\ i \in 1..Len(apiCalls)
    /\ apiCalls[i].status = "pending"
    /\ outcome = "network" => body = <<>>
    /\ apiCalls' = Settle(i, outcome, body)
    /\ ev' = "other"
    /\ UNCHANGED <<chatVars, turnVars, tasks, newTask, loading, error, serverVars>>

\* the caller takes what the task function returned or threw
CallerResumes(i) ==
    /\ i \in 1..Len(apiCalls)
    /\ apiCalls[i].status = "settled"
    /\ apiCalls' = RemoveAt(apiCalls, i)
    /\ ev' = "other"
    /\ UNCHANGED <<chatVars, turnVars, tasks, newTask, loading, error, serverVars>>

\* -------------------------------------------- conversation state machine
\* The interpreter behind POST /api/chat, one conversation session.  An
\* utterance is a sequence of words; the vocabulary holds one trigger word
\* of each category, one status keyword, the explicit ids and two nominal
\* words, all in one case.
Intents == {"AddTask", "ListTasks", "CompleteTask", "Unclear"}
CompleteTriggers == {"mark"}
AddTriggers == {"add"}
ListTriggers == {"show"}
StatusKeywords == {"pending"}
IdTokens == {"#1", "#2"}
NominalWords == {"a", "1"}
Vocabulary ==
    CompleteTriggers \cup AddTriggers \cup ListTriggers \cup StatusKeywords
    \cup IdTokens \cup NominalWords
Utterances == UNION {[1..n -> Vocabulary] : n \in 0..MaxWords}

IdOf(w) == CASE w = "#1" -> 1 [] w = "#2" -> 2 [] OTHER -> 0

\* the rule table with the AddTask rules ahead of the CompleteTask rules
RuleTable_AddTaskFirst ==
    << [intent |-> "AddTask", triggers |-> AddTriggers],
       [intent |-> "CompleteTask", triggers |-> CompleteTriggers],
       [intent |-> "ListTasks", triggers |-> ListTriggers] >>

\* the rule table: the categories in their priority order
RuleTable ==
    << [intent |-> "CompleteTask", triggers |-> CompleteTriggers],
       [intent |-> "AddTask", triggers |-> AddTriggers],
       [intent |-> "ListTasks", triggers |-> ListTriggers] >>

Matches(u, triggers) == \E k \in 1..Len(u) : u[k] \in triggers

\* what classification answers when no rule matched, as a listing
NoRuleMatched_ListTasks == "ListTasks"

\* what classification answers when no rule matched
NoRuleMatched == "Unclear"

RECURSIVE FirstMatch(_, _)
FirstMatch(u, k) ==
    IF k > Len(RuleTable) THEN NoRuleMatched
    ELSE IF Matches(u, RuleTable[k].triggers) THEN RuleTable[k].intent
         ELSE FirstMatch(u, k + 1)

\* classify(utterance) -> Intent
classify(u) == FirstMatch(u, 1)

RECURSIVE Strip(_, _)
Strip(u, ws) ==
    IF u = <<>> THEN <<>>
    ELSE IF Head(u) \in ws THEN Strip(Tail(u), ws)
         ELSE <<Head(u)>> \o Strip(Tail(u), ws)

Keep(u, ws) == Strip(u, Vocabulary \ ws)

\* the reference of a CompleteTask utterance, with a nominal phrase taken
\* before an explicit id
Reference_TitleFirst(u) ==
    IF Keep(u, NominalWords) # <<>> THEN TitleMention(Keep(u, NominalWords))
    ELSE IF Keep(u, IdTokens) # <<>> THEN ExplicitId(IdOf(Head(Keep(u, IdTokens))))
         ELSE NoRef

\* the reference of a CompleteTask utterance: an explicit id token, else a
\* nominal phrase, else none
Reference(u) ==
    IF Keep(u, IdTokens) # <<>> THEN ExplicitId(IdOf(Head(Keep(u, IdTokens))))
    ELSE IF Keep(u, NominalWords) # <<>> THEN TitleMention(Keep(u, NominalWords))
         ELSE NoRef

\* extract(utterance, intent) -> SlotSet
extract(u, chosen) ==
    CASE chosen = "AddTask" -> SlotSet(chosen, Strip(u, AddTriggers), "none", NoRef)
      [] chosen = "ListTasks" ->
            SlotSet(chosen, <<>>,
                    IF Matches(u, StatusKeywords) THEN "incomplete" ELSE "all", NoRef)
      [] chosen = "CompleteTask" -> SlotSet(chosen, <<>>, "none", Reference(u))
      [] OTHER -> NoSlots

\* a required slot is missing
IncompleteSlots(sl) ==
    \/ sl.intent = "AddTask" /\ sl.title = <<>>
    \/ sl.intent = "CompleteTask" /\ sl.referenceExpression = NoRef

\* In AwaitingClarification the follow-up is taken as the missing reference
\* or title of the stored slots.
CompleteSlots(stored, u) ==
    IF stored.intent = "CompleteTask" /\ Reference(u) # NoRef
    THEN [stored EXCEPT !.referenceExpression = Reference(u)]
    ELSE IF stored.intent = "AddTask" /\ stored.title = <<>>
         THEN [stored EXCEPT !.title = u]
         ELSE NoSlots

Contains(t, m) ==
    \E k \in 0..(Len(t) - Len(m)) : SubSeq(t, k + 1, k + Len(m)) = m

\* the tasks a title mention stands for: those with that title, else those
\* whose title contains it
Candidates(m, snap) ==
    LET exact == {snap.tasks[k].id : k \in {j \in 1..Len(snap.tasks) :
                        snap.tasks[j].title = m}}
        substring == {snap.tasks[k].id : k \in {j \in 1..Len(snap.tasks) :
                        Contains(snap.tasks[j].title, m)}}
    IN  IF exact # {} THEN exact ELSE substring

\* resolve(expr, snapshot) that takes the first of several candidates
Resolve_FirstCandidate(expr, snap) ==
    CASE expr.tag = "ExplicitId" ->
            IF expr.id \in TaskIds(snap.tasks) THEN Resolved(expr.id) ELSE NotFound
      [] expr.tag = "TitleMention" ->
            LET c == Candidates(expr.mention, snap)
            IN  IF c = {} THEN NotFound
                ELSE Resolved(CHOOSE id \in c : \A other \in c : id <= other)
      [] OTHER -> NotFound

\* resolve(expr, snapshot) -> ResolutionResult
Resolve(expr, snap) ==
    CASE expr.tag = "ExplicitId" ->
            IF Cardinality({k \in 1..Len(snap.tasks) : snap.tasks[k].id = expr.id}) = 1
            THEN Resolved(expr.id) ELSE NotFound
      [] expr.tag = "TitleMention" ->
            LET c == Candidates(expr.mention, snap)
            IN  IF c = {} THEN NotFound
                ELSE IF Cardinality(c) = 1 THEN Resolved(CHOOSE id \in c : TRUE)
                     ELSE Ambiguous(c)
      [] OTHER -> NotFound

\* dispatch(intent, slots): the tool call of a turn whose slots are complete
dispatch(sl, id, n) ==
    CASE sl.intent = "AddTask" -> ToolCall("add_task", sl.title, "none", 0, n)
      [] sl.intent = "ListTasks" -> ToolCall("list_tasks", <<>>, sl.statusFilter, 0, n)
      [] sl.intent = "CompleteTask" -> ToolCall("complete_task", <<>>, "none", id, n)
      [] OTHER -> NoToolCall

\* where a turn goes once its slots are built, when a snapshot the session
\* already holds is resolved against without a fetch
AfterExtraction_CachedSnapshot(sl) ==
    IF sl.intent = "Unclear" \/ IncompleteSlots(sl) THEN "AwaitingClarification"
    ELSE IF sl.intent = "CompleteTask"
         THEN IF snapshot.turn > 0 THEN "Resolving" ELSE "Fetching"
         ELSE "Dispatching"

\* where a turn goes once its slots are built, when the slots are not tested
\* for a missing title or reference
AfterExtraction_NoSlotCheck(sl) ==
    IF sl.intent = "Unclear" THEN "AwaitingClarification"
    ELSE IF sl.intent = "CompleteTask"
         THEN IF snapshot.turn = turn THEN "Resolving" ELSE "Fetching"
         ELSE "Dispatching"

\* where a turn goes once its slots are built; the snapshot is fetched once
\* in a turn that needs it
AfterExtraction(sl) ==
    IF sl.intent = "Unclear" \/ IncompleteSlots(sl) THEN "AwaitingClarification"
    ELSE IF sl.intent = "CompleteTask"
         THEN IF snapshot.turn = turn THEN "Resolving" ELSE "Fetching"
         ELSE "Dispatching"

\* the response and the tool call with which a turn leaves extraction
Extracted(sl, n) ==
    /\ slots' = sl
    /\ machine' = AfterExtraction(sl)
    /\ response' = IF machine' = "AwaitingClarification" THEN "clarification" ELSE "none"
    /\ toolCall' = IF machine' = "Dispatching" THEN dispatch(sl, 0, n) ELSE toolCall

\* a follow-up in AwaitingClarification, classified afresh at once
FollowUp_ReclassifiedAtOnce == "Reclassifying"

\* a follow-up in AwaitingClarification goes to slot completion
FollowUp == "Completing"

\* Idle or AwaitingClarification: an utterance is received.  In Idle it
\* goes to classification, in AwaitingClarification it is a follow-up.
ReceiveUtterance(u) ==
    /\ machine \in {"Idle", "AwaitingClarification"}
    /\ turn < MaxTurnSeq
    /\ turn' = turn + 1
    /\ utterance' = u
    /\ machine' = IF machine = "Idle" THEN "Classifying" ELSE FollowUp
    /\ phase' = "received"
    /\ response' = "none"
    /\ toolCall' = NoToolCall
    /\ toolResult' = NoToolResult
    /\ ev' = "other"
    /\ UNCHANGED <<chatVars, homeVars, serverVars, intent, snapshot, slots,
                   resolution, listed>>

\* the utterance is classified and its slots are extracted
Classify ==
    /\ machine = "Classifying"
    /\ phase' = "classified"
    /\ intent' = classify(utterance)
    /\ Extracted(extract(utterance, intent'), turn)
    /\ ev' = "other"
    /\ UNCHANGED <<chatVars, homeVars, serverVars, turn, utterance, snapshot,
                   resolution, toolResult, listed>>

\* the follow-up completes the stored slots, or supplies nothing they lack
CompleteStoredSlots ==
    /\ machine = "Completing"
    /\ phase' = "completion"
    /\ LET sl == CompleteSlots(slots, utterance)
       IN  IF sl.intent = "Unclear" \/ IncompleteSlots(sl)
           THEN /\ machine' = "Reclassifying"
                /\ UNCHANGED <<slots, response, toolCall>>
           ELSE Extracted(sl, turn)
    /\ ev' = "other"
    /\ UNCHANGED <<chatVars, homeVars, serverVars, turn, utterance, intent, snapshot,
                   resolution, toolResult, listed>>

\* the follow-up did not resolve as a completion: it is classified afresh
Reclassify ==
    /\ machine = "Reclassifying"
    /\ phase' = "reclassified"
    /\ intent' = classify(utterance)
    /\ Extracted(extract(utterance, intent'), turn)
    /\ ev' = "other"
    /\ UNCHANGED <<chatVars, homeVars, serverVars, turn, utterance, snapshot,
                   resolution, toolResult, listed>>

\* the Task Snapshot Provider returns the user's current tasks
FetchSnapshot ==
    /\ machine = "Fetching"
    /\ snapshot' = [tasks |-> serverTasks, turn |-> turn]
    /\ machine' = "Resolving"
    /\ ev' = "other"
    /\ UNCHANGED <<chatVars, homeVars, serverVars, turn, utterance, intent, phase,
                   slots, response, resolution, toolCall, toolResult, listed>>

\* the reference of a CompleteTask turn is resolved against the snapshot
ResolveReference ==
    /\ machine = "Resolving"
    /\ LET r == Resolve(slots.referenceExpression, snapshot)
       IN  /\ resolution' = [result |-> r, turn |-> turn]
           /\ IF r.kind = "Resolved"
              THEN /\ machine' = "Dispatching"
                   /\ toolCall' = dispatch(slots, r.id, turn)
                   /\ response' = "none"
              ELSE IF phase = "completion"
                   THEN /\ machine' = "Reclassifying"
                        /\ UNCHANGED <<toolCall, response>>
                   ELSE /\ machine' = "AwaitingClarification"
                        /\ response' = IF r.kind = "Ambiguous" THEN "clarification"
                                       ELSE "notFound"
                        /\ UNCHANGED toolCall
    /\ ev' = "other"
    /\ UNCHANGED <<chatVars, homeVars, serverVars, turn, utterance, intent, phase,
                   snapshot, slots, toolResult, listed>>

RECURSIVE WithStatus(_, _)
WithStatus(list, status) ==
    IF list = <<>> THEN <<>>
    ELSE IF status = "all" \/ Head(list).status = status
         THEN <<Head(list)>> \o WithStatus(Tail(list), status)
         ELSE WithStatus(Tail(list), status)

RECURSIVE Reversed(_)
Reversed(list) ==
    IF list = <<>> THEN <<>> ELSE Reversed(Tail(list)) \o <<Head(list)>>

\* list_tasks(status) whose order changes from one request to the next
list_tasks_Unordered(status) ==
    IF turn % 2 = 0 THEN WithStatus(serverTasks, status)
    ELSE Reversed(WithStatus(serverTasks, status))

\* list_tasks(status): the stored tasks with that status, in stored order
list_tasks(status) == WithStatus(serverTasks, status)

\* complete_task(task_id): the store with that task complete
complete_task(id) ==
    [k \in 1..Len(serverTasks) |->
        IF serverTasks[k].id = id
        THEN [serverTasks[k] EXCEPT !.status = "complete"]
        ELSE serverTasks[k]]

\* the tool call of the turn succeeds: the store is changed, the response is
\* emitted and the cached snapshot is refreshed
ToolSucceeds ==
    /\ machine = "Dispatching"
    /\ toolCall.tool = "add_task" => nextId <= MaxTasks
    /\ toolCall.tool = "complete_task" => toolCall.task_id \in TaskIds(serverTasks)
    /\ serverTasks' =
          CASE toolCall.tool = "add_task" ->
                  Append(serverTasks, NewTask(nextId, toolCall.title))
            [] toolCall.tool = "complete_task" -> complete_task(toolCall.task_id)
            [] OTHER -> serverTasks
    /\ nextId' = IF toolCall.tool = "add_task" THEN nextId + 1 ELSE nextId
    /\ toolResult' =
          ToolResult(toolCall.tool, TRUE,
                     IF toolCall.tool = "list_tasks" THEN list_tasks(toolCall.status)
                     ELSE <<>>)
    /\ listed' = IF toolCall.tool = "list_tasks"
                 THEN [status |-> toolCall.status, tasks |-> toolResult'.tasks,
                       count |-> toolResult'.count, unchanged |-> TRUE,
                       again |-> listed.unchanged /\ listed.status = toolCall.status]
                 ELSE [listed EXCEPT !.unchanged = FALSE]
    /\ snapshot' = [tasks |-> serverTasks', turn |-> turn]
    /\ machine' = "Idle"
    /\ response' = "completed"
    /\ ev' = "other"
    /\ UNCHANGED <<chatVars, homeVars, turn, utterance, intent, phase, slots,
                   resolution, toolCall>>

\* the tool call of the turn fails
ToolFails ==
    /\ machine = "Dispatching"
    /\ machine' = "Error"
    /\ toolResult' = ToolResult(toolCall.tool, FALSE, <<>>)
    /\ ev' = "other"
    /\ UNCHANGED <<chatVars, homeVars, serverVars, turn, utterance, intent, phase,
                   snapshot, slots, response, resolution, toolCall, listed>>

\* Error: the failure is reported and the machine is ready again
ReportError ==
    /\ machine = "Error"
    /\ machine' = "Idle"
    /\ response' = "failure"
    /\ ev' = "other"
    /\ UNCHANGED <<chatVars, homeVars, serverVars, turn, utterance, intent, phase,
                   snapshot, slots, resolution, toolCall, toolResult, listed>>

\* the same user changes a task through the web page meanwhile
StoreChangedElsewhere(id) ==
    /\ turn > 0
    /\ id \in TaskIds(serverTasks)
    /\ \/ serverTasks' = [k \in 1..Len(serverTasks) |->
              IF serverTasks[k].id = id THEN Toggled(serverTasks[k]) ELSE serverTasks[k]]
       \/ serverTasks' = Without(serverTasks, id)
    /\ listed' = [listed EXCEPT !.unchanged = FALSE]
    /\ ev' = "other"
    /\ UNCHANGED <<chatVars, homeVars, nextId, machine, turn, utterance, intent, phase,
                   snapshot, slots, response, resolution, toolCall, toolResult>>

\* ------------------------------------------------------------------ Spec
Next ==
    \/ \E i \in 1..1 : getTasksSettles(i)
    \/ \E i \in 1..1 : fetchTasks(i)
    \/ \E t \in Texts : onChange(t)
    \/ handleSubmit
    \/ \E i \in 1..MaxSubmits : chatEndpointOk(i)
    \/ \E i \in 1..MaxSubmits : chatFetchFails(i)
    \/ \E i \in 1..MaxSubmits : handleSubmitResumes(i)

Spec == Init /\ [][Next]_vars

\* The JavaScript runtime runs the continuation of an await once its promise
\* has settled; nothing obliges the network or the backend to answer.
Fairness ==
    /\ \A i \in 1..MaxSubmits : WF_vars(handleSubmitResumes(i))
    /\ \A i \in 1..1 : WF_vars(fetchTasks(i))

FairSpec == Spec /\ Fairness

\* The Home page alone, as the host that attaches MockUserId to its chat.
HomeInit == Init /\ userId = MockUserId

HomeNext ==
    \/ \E i \in 1..MaxCalls : getTasksSettles(i)
    \/ \E i \in 1..MaxCalls : fetchTasks(i)
    \/ \E value \in Titles : handleInputChange("title", value)
    \/ \E value \in Descriptions : handleInputChange("description", value)
    \/ Home_handleSubmit
    \/ \E i \in 1..MaxCalls : createTaskSettles(i)
    \/ \E i \in 1..MaxCalls : Home_handleSubmitResumes(i)
    \/ \E id \in 1..MaxTasks : handleToggleStatus(id)
    \/ \E i \in 1..MaxCalls : toggleTaskStatusSettles(i)
    \/ \E i \in 1..MaxCalls : handleToggleStatusResumes(i)
    \/ \E id \in 1..MaxTasks : handleDelete(id)
    \/ \E i \in 1..MaxCalls : deleteTaskSettles(i)
    \/ \E i \in 1..MaxCalls : handleDeleteResumes(i)

HomeSpec == HomeInit /\ [][HomeNext]_vars

\* The chat with the clock its message ids are read from.  The other
\* specifications leave the clock at rest: nothing in them reads an id.
ClockInit == Init /\ userId = MockUserId

ClockNext == Next \/ Tick

ClockSpec == ClockInit /\ [][ClockNext]_vars

\* The API client alone, under any caller and any server.
ApiInit == Init /\ userId = MockUserId

ApiNext ==
    \/ \E req \in ClientRequests : ClientCalled(req)
    \/ \E message \in CallerMessages : sendMessageCalled(message)
    \/ \E i \in 1..MaxCalls, outcome \in FetchOutcomes, body \in Bodies :
            FetchEnds(i, outcome, body)
    \/ \E i \in 1..MaxCalls : CallerResumes(i)
    \/ \E i \in 1..MaxCalls : chatEndpointOk(i)
    \/ \E i \in 1..MaxCalls : chatFetchFails(i)

ApiSpec == ApiInit /\ [][ApiNext]_vars

\* One conversation session of the interpreter and the task store.
TurnInit == Start(SessionStores) /\ userId = MockUserId

TurnNext ==
    \/ \E u \in Utterances : ReceiveUtterance(u)
    \/ Classify
    \/ CompleteStoredSlots
    \/ Reclassify
    \/ FetchSnapshot
    \/ ResolveReference
    \/ ToolSucceeds
    \/ ToolFails
    \/ ReportError
    \/ \E id \in 1..MaxTasks : StoreChangedElsewhere(id)

TurnSpec == TurnInit /\ [][TurnNext]_vars

TypeOK ==
    /\ userId \in AttachedUserIds
    /\ inputMessage \in Texts
    /\ isLoading \in BOOLEAN
    /\ loading \in BOOLEAN
    /\ arrived \in 0..MaxSubmits
    /\ Len(chatCalls) <= arrived
    /\ Len(messages) <= 2 * Len(chatCalls)

\* ---------------------------------------------------------------- claims
Turns == 1..Len(chatCalls)
MessagesOf(i, role) ==
    {k \in 1..Len(messages) : messages[k].turn = i /\ messages[k].role = role}
Settled(i) == i \in Turns /\ chatCalls[i].status \in {"resolved", "rejected"}
Done(i) == i \in Turns /\ chatCalls[i].status = "done"
Threw(i) == chatCalls[i].outcome # "ok" \/ chatCalls[i].data = JsonNull

\* C1: every accepted user message has one user entry in the message list;
\* once handleSubmit has resumed from its settled sendMessage call the list
\* holds exactly one assistant message of that turn, placed after the user
\* message, and before that it holds none.
C1_OneAnswerPerTurn ==
    \A i \in Turns :
        /\ Cardinality(MessagesOf(i, "user")) = 1
        /\ Cardinality(MessagesOf(i, "assistant")) = IF Done(i) THEN 1 ELSE 0
        /\ \A u \in MessagesOf(i, "user"), a \in MessagesOf(i, "assistant") : u < a

C1_Witness ==
    /\ Len(chatCalls) = 2
    /\ Done(1) /\ chatCalls[1].outcome = "network"
    /\ Done(2) /\ chatCalls[2].outcome = "ok"
    /\ Len(messages) = 4

\* C2: at most one sendMessage call of the session has not finished, under
\* any sequence of submit events, and while one is unfinished the text input
\* and the send button are disabled.
C2_OneInFlight ==
    /\ Cardinality({i \in Turns : ~Done(i)}) <= 1
    /\ (\E i \in Turns : ~Done(i)) => inputDisabled /\ submitDisabled

C2_Witness ==
    /\ \E i \in Turns : chatCalls[i].status = "pending"
    /\ Trim(inputMessage) # <<>>
    /\ ev = "submitWhileLoading"

C4_DispatchEndsIdle ==
    /\ \A i \in 1..MaxSubmits : Settled(i) ~> (Done(i) /\ ~isLoading)
    /\ [][\A i \in Turns :
            (chatCalls[i].status # "done" /\ chatCalls'[i].status = "done") =>
                /\ ~isLoading'
                /\ messages' = Append(messages,
                      [id |-> clock, role |-> "assistant",
                       content |-> IF Threw(i) THEN ChatErrorText
                                   ELSE chatCalls[i].data.response,
                       turn |-> i])]_vars

C4_Witness ==
    /\ Len(chatCalls) = 2
    /\ Done(1) /\ chatCalls[1].outcome = "http4xx"
    /\ chatCalls[2].status = "pending"

\* C5: a call that is never answered does not keep the session loading for
\* ever: the loading state is always eventually left.
C5_TimeoutEndsDispatching == isLoading ~> ~isLoading

\* C6: a call that failed to its caller with a transport failure was
\* attempted RetryBound times, and a call that failed validation once.
C6_TransientRetried ==
    \A i \in Turns :
        /\ chatCalls[i].outcome = "network" => chatCalls[i].fetches = RetryBound
        /\ chatCalls[i].outcome = "http4xx" => chatCalls[i].fetches = 1

\* C8: every chat request carries the user id attached to the session, and
\* no session with another attached id sends under that id.
C8_ForwardsAttachedId ==
    \A i \in Turns :
        /\ chatCalls[i].userId = userId
        /\ \A other \in AttachedUserIds \ {userId} :
              ForwardedUserId(other) # chatCalls[i].userId

\* C9: when the last chat turn has ended and its tool call succeeded and
\* mutated or listed tasks, the task list kept by the page is the stored one.
C9_CacheRefreshed ==
    (/\ chatCalls # <<>>
     /\ Done(Len(chatCalls))
     /\ chatCalls[Len(chatCalls)].outcome = "ok"
     /\ chatCalls[Len(chatCalls)].tool \in {"add_task", "complete_task", "list_tasks"})
    => tasks = serverTasks

\* C7: no createTask request and no stored task has a title that is empty
\* after trimming; a submit of the add-task form with such a title sends no
\* request, leaves the task list unchanged and sets 'Title is required'.
C7_NoBlankTitleSent ==
    /\ [](/\ \A i \in 1..Len(apiCalls) :
                apiCalls[i].op = "createTask" => Trim(apiCalls[i].data.title) # <<>>
          /\ \A k \in 1..Len(serverTasks) : Trim(serverTasks[k].title) # <<>>)
    /\ [][ev' = "homeSubmitBlank" =>
              /\ Trim(newTask.title) = <<>>
              /\ apiCalls' = apiCalls
              /\ tasks' = tasks
              /\ serverTasks' = serverTasks
              /\ error' = TitleRequiredText]_vars
    /\ [][(Len(apiCalls') > Len(apiCalls)
            /\ apiCalls'[Len(apiCalls')].op = "createTask")
              => /\ Trim(newTask.title) # <<>>
                 /\ apiCalls'[Len(apiCalls')].data = newTask]_vars

C7_Witness ==
    /\ ev = "homeSubmitBlank"
    /\ newTask.title = <<" ">>
    /\ error = TitleRequiredText
    /\ tasks # <<>>
    /\ apiCalls = <<>>

\* C10: a reference is resolved only against a snapshot fetched in the turn
\* that resolves it, and whenever the snapshot of the session changes the new
\* one is a whole fetch of the store made in the current turn.
C10_FreshSnapshotPerTurn ==
    /\ [][(machine = "Resolving" /\ machine' # "Resolving") =>
              snapshot.turn = turn]_vars
    /\ [][snapshot' # snapshot =>
              snapshot' = [tasks |-> serverTasks', turn |-> turn']]_vars

C10_Witness ==
    /\ turn = 2
    /\ machine = "Dispatching"
    /\ slots.intent = "CompleteTask"
    /\ snapshot.turn = 2
    /\ snapshot.tasks # <<NewTask(1, <<"a">>)>>
\* C11: classification takes the first category, in the order CompleteTask,
\* AddTask, ListTasks, of which the utterance holds a trigger: a CompleteTask
\* trigger wins over the triggers of the two others, and an AddTask trigger
\* wins over a ListTasks trigger.
C11_FirstMatchingRuleWins ==
    [][(machine \in {"Classifying", "Reclassifying"} /\ machine' # machine) =>
          /\ Matches(utterance, CompleteTriggers) => intent' = "CompleteTask"
          /\ (~Matches(utterance, CompleteTriggers) /\ Matches(utterance, AddTriggers))
                => intent' = "AddTask"
          /\ (/\ ~Matches(utterance, CompleteTriggers)
              /\ ~Matches(utterance, AddTriggers)
              /\ Matches(utterance, ListTriggers)) => intent' = "ListTasks"]_vars

C11_Witness ==
    /\ utterance = <<"add", "mark">>
    /\ phase = "classified"
    /\ intent = "CompleteTask"
    /\ machine = "AwaitingClarification"
\* C12: classification chooses one of the four intents for every utterance,
\* and Unclear for every utterance that holds no trigger of any of the three
\* categories.
C12_UnclearWithoutTrigger ==
    [][(machine \in {"Classifying", "Reclassifying"} /\ machine' # machine) =>
          /\ intent' \in Intents
          /\ ~Matches(utterance, CompleteTriggers \cup AddTriggers \cup ListTriggers)
                => intent' = "Unclear"]_vars

C12_Witness ==
    /\ utterance = <<"a", "#1">>
    /\ phase = "classified"
    /\ intent = "Unclear"
    /\ machine = "AwaitingClarification"
    /\ response = "clarification"

\* the id n when every explicit "#n" token of the utterance names n, else 0
C13_ExplicitIdOf(u) ==
    IF Keep(u, IdTokens) # <<>>
       /\ \A k \in 1..Len(u) : u[k] \in IdTokens => IdOf(u[k]) = IdOf(Head(Keep(u, IdTokens)))
    THEN IdOf(Head(Keep(u, IdTokens))) ELSE 0

\* C13: when the reference of a CompleteTask turn is resolved, the utterance
\* holds an explicit "#n" and the snapshot holds a task with id n, the result
\* is Resolved(n) and complete_task(n) is the call dispatched, whatever the
\* other words of the utterance and the titles of the tasks.
C13_ExplicitIdResolves ==
    [][(/\ machine = "Resolving" /\ machine' # machine
        /\ slots.intent = "CompleteTask"
        /\ C13_ExplicitIdOf(utterance) \in TaskIds(snapshot.tasks)) =>
          /\ resolution'.result = Resolved(C13_ExplicitIdOf(utterance))
          /\ machine' = "Dispatching"
          /\ toolCall' = ToolCall("complete_task", <<>>, "none",
                                   C13_ExplicitIdOf(utterance), turn)]_vars

C13_Witness ==
    /\ utterance = <<"mark", "#1">>
    /\ resolution = [result |-> Resolved(1), turn |-> 2]
    /\ machine = "Dispatching"
    /\ \E k \in 1..Len(snapshot.tasks) :
          snapshot.tasks[k].id = 2 /\ snapshot.tasks[k].title = <<"1">>
\* C14 as stated: when a title mention matches more than one task of the
\* snapshot, resolution returns Ambiguous with the ids of all of them, the
\* turn goes to AwaitingClarification and never to Dispatching, and no
\* complete_task call for a candidate is issued in that turn.
C14_AmbiguousAwaitsClarification ==
    /\ [][(/\ machine = "Resolving" /\ machine' # machine
            /\ slots.referenceExpression.tag = "TitleMention"
            /\ Cardinality(Candidates(slots.referenceExpression.mention, snapshot)) > 1)
           => resolution' =
                 [result |-> Ambiguous(Candidates(slots.referenceExpression.mention,
                                                  snapshot)),
                  turn |-> turn]]_vars
    /\ []((resolution.turn = turn /\ resolution.result.kind = "Ambiguous") =>
             /\ machine \in {"AwaitingClarification", "Reclassifying", "Fetching",
                              "Resolving"}
             /\ ~(/\ toolCall.turn = turn /\ toolCall.tool = "complete_task"
                  /\ toolCall.task_id \in resolution.result.candidateIds))

\* C14 as amended: the same, but a turn whose ambiguous mention came from a
\* follow-up completing the stored slots is classified afresh, and may then
\* dispatch add_task or list_tasks.
C14_AmbiguousNeverGuessed ==
    /\ [][(/\ machine = "Resolving" /\ machine' # machine
            /\ slots.referenceExpression.tag = "TitleMention"
            /\ Cardinality(Candidates(slots.referenceExpression.mention, snapshot)) > 1)
           => /\ resolution' =
                    [result |-> Ambiguous(Candidates(slots.referenceExpression.mention,
                                                     snapshot)),
                     turn |-> turn]
              /\ machine' = IF phase = "completion" THEN "Reclassifying"
                            ELSE "AwaitingClarification"
              /\ toolCall' = toolCall]_vars
    /\ []((resolution.turn = turn /\ resolution.result.kind = "Ambiguous") =>
             /\ \/ machine \in {"AwaitingClarification", "Reclassifying", "Fetching",
                                 "Resolving"}
                \/ /\ phase = "reclassified"
                   /\ machine \in {"Dispatching", "Idle", "Error"}
                   /\ toolCall.tool \in {"add_task", "list_tasks"}
             /\ ~(toolCall.turn = turn /\ toolCall.tool = "complete_task"))

C14_Witness ==
    /\ utterance = <<"mark", "a">>
    /\ resolution = [result |-> Ambiguous({1, 2}), turn |-> turn]
    /\ machine = "AwaitingClarification"
    /\ response = "clarification"
    /\ slots.referenceExpression = TitleMention(<<"a">>)
    /\ toolCall = NoToolCall
\* a step of the current turn failed: classification or extraction yielded
\* Unclear or IncompleteSlots, or resolution yielded Ambiguous or NotFound
C15_StepFailed ==
    /\ turn > 0
    /\ \/ /\ phase \in {"classified", "reclassified"}
          /\ slots.intent = "Unclear" \/ IncompleteSlots(slots)
       \/ /\ resolution.turn = turn
          /\ resolution.result.kind \in {"Ambiguous", "NotFound"}

C15_DispatchingOnlyComplete ==
    machine = "Dispatching" =>
        /\ slots.intent # "Unclear" /\ ~IncompleteSlots(slots)
        /\ toolCall = dispatch(slots, toolCall.task_id, turn)
        /\ slots.intent = "CompleteTask" =>
              resolution = [result |-> Resolved(toolCall.task_id), turn |-> turn]

C15_SlotsStored ==
    (machine' = "AwaitingClarification" /\ machine # machine') =>
        /\ slots'.intent = intent'
        /\ machine = "Resolving" => slots' = slots
        /\ machine = "Classifying" => slots' = extract(utterance, intent')
        /\ toolCall' = toolCall

\* C15 as stated: Dispatching is reached only with complete slots and, for
\* CompleteTask, a Resolved reference; a turn in which a step failed ends in
\* AwaitingClarification with the slots built so far stored, and issues no
\* tool call.
C15_FailedStepAwaitsClarification ==
    /\ [](C15_DispatchingOnlyComplete)
    /\ [][C15_SlotsStored]_vars
    /\ [](C15_StepFailed =>
             /\ machine \in {"AwaitingClarification", "Reclassifying", "Fetching",
                              "Resolving"}
             /\ toolCall.turn # turn)

\* C15 as amended: the same, but a follow-up whose completion of the stored
\* slots did not resolve is classified afresh, and that turn may then
\* dispatch add_task or list_tasks.
C15_FailedStepNeverDispatched ==
    /\ [](C15_DispatchingOnlyComplete)
    /\ [][C15_SlotsStored]_vars
    /\ [](C15_StepFailed =>
             \/ /\ machine \in {"AwaitingClarification", "Reclassifying", "Fetching",
                                 "Resolving"}
                /\ toolCall.turn # turn
             \/ /\ phase = "reclassified"
                /\ resolution.turn = turn
                /\ toolCall.tool \in {"add_task", "list_tasks"})

C15_Witness ==
    /\ utterance = <<"add">>
    /\ phase = "classified"
    /\ machine = "AwaitingClarification"
    /\ slots = SlotSet("AddTask", <<>>, "none", NoRef)
    /\ response = "clarification"
    /\ toolCall = NoToolCall

\* C16: an utterance received in AwaitingClarification goes to the completion
\* of the stored slots, which are kept until then; it is classified afresh
\* only after that completion was attempted in the same turn and did not
\* resolve: the follow-up supplied nothing the stored slots lack, or the
\* completed reference was not Resolved.
C16_CompletionBeforeReclassification ==
    /\ [][(machine = "AwaitingClarification" /\ turn' # turn) =>
              /\ machine' = "Completing"
              /\ slots' = slots /\ intent' = intent]_vars
    /\ [][(machine = "Completing" /\ machine' # machine) =>
              /\ phase' = "completion"
              /\ \/ slots' = CompleteSlots(slots, utterance) /\ machine' # "Reclassifying"
                 \/ slots' = slots /\ machine' = "Reclassifying"]_vars
    /\ [][(phase' = "reclassified" /\ phase # "reclassified") =>
              /\ phase = "completion"
              /\ turn' = turn
              /\ \/ LET sl == CompleteSlots(slots, utterance)
                    IN  sl.intent = "Unclear" \/ IncompleteSlots(sl)
                 \/ /\ resolution.turn = turn
                    /\ resolution.result.kind # "Resolved"]_vars
    /\ [](machine = "Reclassifying" => phase = "completion")

C16_Witness ==
    /\ turn = 2
    /\ phase = "reclassified"
    /\ utterance = <<"add", "1">>
    /\ resolution = [result |-> NotFound, turn |-> 2]
    /\ machine = "Dispatching"
    /\ toolCall = ToolCall("add_task", <<"1">>, "none", 0, 2)

C18_CompleteStaysComplete ==
    [][\A i \in 1..Len(apiCalls) :
          (/\ Pending(i, "toggleTaskStatus")
           /\ Len(apiCalls') = Len(apiCalls)
           /\ apiCalls'[i].status = "settled" /\ apiCalls'[i].ok) =>
              /\ apiCalls'[i].body[1].status = "complete"
              /\ \A k \in 1..Len(serverTasks') :
                    serverTasks'[k].id = apiCalls[i].id =>
                        serverTasks'[k].status = "complete"]_vars

\* C19: every request of the client, to a task endpoint or to the chat
\* endpoint, carries an Authorization header with a token.
C19_AuthorizationSent ==
    /\ \A i \in 1..Len(apiCalls) :
          \E h \in apiCalls[i].headers : h.name = "Authorization" /\ h.value # ""
    /\ \A i \in 1..Len(chatCalls) :
          \E h \in chatCalls[i].headers : h.name = "Authorization" /\ h.value # ""

\* the kind of the response of a turn the endpoint answered
C20_Kind(i) == IF chatCalls[i].tool = "none" THEN "clarification" ELSE "completed"

\* C20: what sendMessage returned for a clarification differs from what it
\* returned for a completed action, for every two answered turns.
C20_KindsDistinguishable ==
    \A i, j \in Turns :
        (/\ chatCalls[i].outcome = "ok" /\ chatCalls[i].data # JsonNull
         /\ chatCalls[j].outcome = "ok" /\ chatCalls[j].data # JsonNull
         /\ C20_Kind(i) # C20_Kind(j)) => chatCalls[i].data # chatCalls[j].data

\* a step in which the page handles the response of call i of operation op
Handles(i, op, ok) ==
    /\ Returned(i, op)
    /\ apiCalls[i].ok = ok
    /\ apiCalls' = RemoveAt(apiCalls, i)

\* C21: when the page handles a successful createTask, the returned task is
\* the first element of the task list, the tasks listed before follow it in
\* their order and unchanged, the form is empty again and the error is null.
C21_CreatedTaskFirst ==
    [][\A i \in 1..Len(apiCalls) :
          Handles(i, "createTask", TRUE) =>
              /\ tasks' # <<>>
              /\ Head(tasks') = apiCalls[i].body[1]
              /\ Tail(tasks') = tasks
              /\ newTask' = [title |-> <<>>, description |-> <<>>]
              /\ error' = Null]_vars

C21_Witness ==
    /\ Len(tasks) = 2
    /\ tasks[1].id = 2
    /\ tasks[2].id = 1
    /\ tasks[1].description = <<"a">>
    /\ newTask = [title |-> <<>>, description |-> <<>>]
    /\ error = Null
    /\ apiCalls = <<>>

\* a step in which the page handles the failure of call i of operation op
C22_Failed(i, op) == Handles(i, op, FALSE)

\* C22: when the page handles a failed create, toggle or delete request, its
\* task list stays as it is and the error message of the operation is set; a
\* failed create also leaves the contents of the form as they are.
C22_FailureKeepsList ==
    [][\A i \in 1..Len(apiCalls) :
          /\ C22_Failed(i, "createTask") =>
                tasks' = tasks /\ error' = CreateErrorText /\ newTask' = newTask
          /\ C22_Failed(i, "toggleTaskStatus") =>
                tasks' = tasks /\ error' = ToggleErrorText
          /\ C22_Failed(i, "deleteTask") =>
                tasks' = tasks /\ error' = DeleteErrorText]_vars

C22_Witness ==
    /\ error = DeleteErrorText
    /\ Len(tasks) = 2
    /\ Len(serverTasks) = 2
    /\ newTask.title = <<"a">>
    /\ apiCalls = <<>>

\* C23: the page is loading exactly while the getTasks call of its mount
\* effect has not been handled, and never again afterwards; handling the call
\* ends loading whether it succeeded or failed, and a failed call leaves the
\* task list empty and sets 'Failed to load tasks. Please try again later.';
\* while the page is loading no create, toggle or delete request is started.
C23_LoadingUntilFetched ==
    /\ [](loading <=> \E i \in 1..Len(apiCalls) : apiCalls[i].op = "getTasks")
    /\ [](loading => \A i \in 1..Len(apiCalls) : apiCalls[i].op = "getTasks")
    /\ [][\A i \in 1..Len(apiCalls) :
            /\ Handles(i, "getTasks", TRUE) =>
                  ~loading' /\ tasks' = apiCalls[i].body /\ error' = error
            /\ Handles(i, "getTasks", FALSE) =>
                  ~loading' /\ tasks' = <<>> /\ error' = LoadErrorText]_vars
    /\ [][loading => Len(apiCalls') <= Len(apiCalls)]_vars
    /\ [][~loading => ~loading']_vars

C23_Witness ==
    /\ ~loading
    /\ error = LoadErrorText
    /\ tasks = <<>>
    /\ serverTasks # <<>>
    /\ apiCalls = <<>>

\* C24: a call of getTasks, createTask, updateTask, deleteTask or
\* toggleTaskStatus returns to its caller exactly when its fetch ended with
\* an ok response, and hands over no value when it throws; a call of
\* sendMessage resolves exactly when its fetch ended with an ok response and
\* rejects, with no value, for every other outcome.
C24_ThrowsUnlessOk ==
    /\ \A i \in 1..Len(apiCalls) :
          apiCalls[i].status = "settled" =>
              /\ apiCalls[i].ok <=> apiCalls[i].outcome = "ok"
              /\ ~apiCalls[i].ok => apiCalls[i].body = <<>>
    /\ \A i \in 1..Len(chatCalls) :
          chatCalls[i].status # "pending" =>
              /\ chatCalls[i].status = "resolved" <=> chatCalls[i].outcome = "ok"
              /\ chatCalls[i].status = "rejected" <=>
                    chatCalls[i].outcome \in FetchFailures
              /\ chatCalls[i].status = "rejected" => chatCalls[i].data = JsonNull

C24_Witness ==
    /\ Len(apiCalls) = 1
    /\ apiCalls[1].op = "updateTask"
    /\ apiCalls[1].outcome = "http4xx"
    /\ ~apiCalls[1].ok
    /\ Len(chatCalls) = 1
    /\ chatCalls[1].status = "rejected"
    /\ chatCalls[1].outcome = "network"

\* C25: when the page handles a successful toggle of task id, the entry of
\* its list with that id becomes the task the server returned, the list keeps
\* its length and every other entry its place and content, and a list with
\* no entry of that id stays as it is.
C25_ToggleReplacesOneEntry ==
    [][\A i \in 1..Len(apiCalls) :
          Handles(i, "toggleTaskStatus", TRUE) =>
              /\ Len(tasks') = Len(tasks)
              /\ \A k \in 1..Len(tasks) :
                    tasks'[k] = IF tasks[k].id = apiCalls[i].id
                                THEN apiCalls[i].body[1] ELSE tasks[k]
              /\ apiCalls[i].id \notin TaskIds(tasks) => tasks' = tasks]_vars

C25_Witness ==
    /\ Len(tasks) = 2
    /\ tasks[1].id = 2 /\ tasks[1].status = "incomplete"
    /\ tasks[2].id = 1 /\ tasks[2].status = "complete"
    /\ serverTasks = <<tasks[2], tasks[1]>>
    /\ apiCalls = <<>>

\* task id was deleted from the store and is not in the list of the page
C26_Deleted(id) ==
    /\ ~loading
    /\ id < nextId
    /\ id \notin TaskIds(serverTasks)
    /\ id \notin TaskIds(tasks)

\* C26: when the page handles a successful delete of task id, its list loses
\* the entries with that id and keeps the others in their order; a task that
\* was deleted and is gone from the list never comes back into it, whatever
\* response arrives afterwards.
C26_DeletedStaysDeleted ==
    /\ [][\A i \in 1..Len(apiCalls) :
            Handles(i, "deleteTask", TRUE) =>
                /\ apiCalls[i].id \notin TaskIds(tasks')
                /\ tasks' = SelectSeq(tasks, LAMBDA t : t.id # apiCalls[i].id)]_vars
    /\ [][\A id \in 1..MaxTasks :
            C26_Deleted(id) => id \notin TaskIds(tasks')]_vars

\* the response of a toggle of task 1 is still to be handled after the
\* delete of task 1 was
C26_Witness ==
    /\ C26_Deleted(1)
    /\ Len(apiCalls) = 1
    /\ Returned(1, "toggleTaskStatus")
    /\ apiCalls[1].ok
    /\ apiCalls[1].id = 1
    /\ tasks # <<>>

\* C27: whenever no toggle request of the page is in flight or waits to be
\* handled, every listed task has the status the store holds for it.
C27_StatusesAgree ==
    (\A i \in 1..Len(apiCalls) : apiCalls[i].op # "toggleTaskStatus") =>
        \A k \in 1..Len(tasks), j \in 1..Len(serverTasks) :
            tasks[k].id = serverTasks[j].id =>
                tasks[k].status = serverTasks[j].status

\* C28: the messages of the list have pairwise distinct ids.
C28_DistinctIds ==
    \A k, l \in 1..Len(messages) : k # l => messages[k].id # messages[l].id

\* C29: a submit of the chat form with an input that is empty after trimming,
\* or while a request is loading, appends no message, sends no request and
\* leaves the input text and the loading flag as they are; every step that
\* sends a request or appends a user message starts from an input that is not
\* blank and from no request loading.
C29_BlankSubmitIgnored ==
    /\ [][ev' \in {"submitBlank", "submitWhileLoading"} =>
              /\ Trim(inputMessage) = <<>> \/ isLoading
              /\ messages' = messages
              /\ chatCalls' = chatCalls
              /\ inputMessage' = inputMessage
              /\ isLoading' = isLoading]_vars
    /\ [][(\/ Len(chatCalls') > Len(chatCalls)
            \/ /\ Len(messages') > Len(messages)
               /\ messages'[Len(messages')].role = "user")
              => Trim(inputMessage) # <<>> /\ ~isLoading]_vars

C29_Witness ==
    /\ ev = "submitBlank"
    /\ inputMessage = <<" ", " ">>
    /\ ~isLoading
    /\ Len(messages) = 2
    /\ Len(chatCalls) = 1

\* C30: a step that sets the error of the page back to null handles a
\* successful createTask; handling a successful toggle, a successful delete
\* or the successful initial fetch leaves the error as it is.
C30_OnlyCreateClearsError ==
    /\ [][(error # Null /\ error' = Null) =>
              \E i \in 1..Len(apiCalls) : Handles(i, "createTask", TRUE)]_vars
    /\ [][\A i \in 1..Len(apiCalls) :
            (\/ Handles(i, "toggleTaskStatus", TRUE)
             \/ Handles(i, "deleteTask", TRUE)
             \/ Handles(i, "getTasks", TRUE)) => error' = error]_vars

C30_Witness ==
    /\ error = TitleRequiredText
    /\ tasks = <<>>
    /\ serverTasks = <<>>
    /\ nextId = 2
    /\ apiCalls = <<>>
====
